---- MODULE Spec2Model ----
(***************************************************************************)
(* Model of tensorflow_service.py: the model-acquisition procedure         *)
(* (maybe_download_and_extract, download_model, is_extracted_model_dir),   *)
(* the start-up sequence of main (warm_up_model, create_graph) and the     *)
(* request handler (MyRequestHandler.do_GET, run_inference_on_image,       *)
(* NodeLookup).                                                            *)
(*                                                                         *)
(* Library behaviour the model relies on:                                  *)
(*  - tf.logging.fatal(...) is the standard logging module's               *)
(*    Logger.fatal: it writes a record at level FATAL and RETURNS; the     *)
(*    statement after it is executed.                                      *)
(*  - tf.gfile.FastGFile(p).read() / GFile(p).readlines() raise            *)
(*    NotFoundError when p does not exist.                                 *)
(*  - An exception that leaves main ends the process; an exception that    *)
(*    leaves do_GET is caught by socketserver (BaseServer.                 *)
(*    _handle_request_noblock: except Exception -> handle_error,           *)
(*    shutdown_request) and serve_forever goes on with the next request.   *)
(*  - HTTPServer.serve_forever handles one request at a time.              *)
(* Files are modelled by their existence; the contents of the graph, the   *)
(* label maps and the images are not modelled.                             *)
(***************************************************************************)
EXTENDS Integers, Sequences, FiniteSets, TLC

\* ------------------------------------------------------------------ bounds
MaxRequests == 2    \* requests the model lets the server accept
MaxLen      == 3    \* longest probability vector
MaxScore    == 2    \* scores are the levels 0..MaxScore
MaxK        == 3    \* largest --num_top_predictions
NumLabelled == 2    \* node ids 0..NumLabelled-1 have a label in the label maps

\* ------------------------------------------------------- program constants
MAX_RETRY   == 2
DEFAULT_TOP == 5
WARM_UP_RUNS == 10

GRAPH_PB   == "classify_image_graph_def.pb"
LABEL_MAP  == "imagenet_2012_challenge_label_map_proto.pbtxt"
UID_MAP    == "imagenet_synset_to_human_label_map.txt"
PANDA_JPG  == "cropped_panda.jpg"

\* The files an archive may hold / the model directory may contain, beside
\* the archive itself.
Names == {GRAPH_PB, LABEL_MAP, UID_MAP, PANDA_JPG}

excepted_files == {GRAPH_PB, LABEL_MAP, UID_MAP}

\* An archive file on disk.  kind: how tarfile.open/extractall ends on it
\* ("ok", EOFError, tarfile.TarError); writes: the members extractall has
\* written into the directory when it ends (all members for "ok", the ones
\* reached before the error otherwise); gen: which download produced this
\* copy (0: the file was there before the process started).
ArchiveKinds == {"ok", "eof", "tarerr"}

ArchiveContents == [kind : ArchiveKinds, writes : SUBSET Names]

NoArchive == [kind |-> "none", writes |-> {}, gen |-> 0]

MkArchive(c, g) == [kind |-> c.kind, writes |-> c.writes, gen |-> g]

VARIABLES
  dirKind,            \* FLAGS.model_dir on disk: "absent", "file" or "dir"
  files,              \* members of Names present in the model directory
  archive,            \* the archive file in the model directory, or NoArchive
  fs0,                \* the disk as it was when the process started
  warm_up_image_file, \* FLAGS.warm_up_image_file: "", "operator" or "default"
  operatorImage,      \* whether the operator-supplied image path exists
  num_top_predictions,\* FLAGS.num_top_predictions
  image_scores,       \* what the engine computes for the image requests name
  flag0,              \* FLAGS.warm_up_image_file as the operator gave it
  url,                \* the URL handed to download_model
  pc,                 \* position of the process
  err,                \* the exception that ended the process, "" if none
  tarfile_extracted,  \* local of maybe_download_and_extract
  cnt,                \* local of maybe_download_and_extract
  downloads,          \* calls of download_model so far
  attempts,           \* extraction attempts so far: <<[gen, outcome]>>
  mkdirs,             \* calls of os.makedirs so far
  acqReturned,        \* maybe_download_and_extract has returned normally
  graphLoads,         \* calls of create_graph that imported the graph
  warmRuns,           \* sess.run calls made by warm_up_model
  serverStarts,       \* times serve_forever was entered
  req,                \* the request being handled, "none" between requests
  predictions,        \* local of run_inference_on_image
  prediction_result,  \* local of run_inference_on_image
  log,                \* one record per accepted request
  events,             \* what run_inference_on_image has done for the request
  lookupBuilds        \* NodeLookup objects built so far

vars == <<dirKind, files, archive, fs0, warm_up_image_file, operatorImage,
          num_top_predictions, image_scores, pc, err, tarfile_extracted, cnt, downloads,
          attempts, mkdirs, acqReturned, graphLoads, warmRuns, serverStarts,
          req, predictions, prediction_result, log, flag0, url, events,
          lookupBuilds>>

diskVars  == <<dirKind, files, archive>>
acqVars   == <<tarfile_extracted, cnt, downloads, attempts, mkdirs>>
warmVars  == <<graphLoads, warmRuns, serverStarts>>
serveVars == <<req, predictions, prediction_result, log, events, lookupBuilds>>
flagVars  == <<warm_up_image_file, operatorImage, num_top_predictions,
               image_scores, flag0, url>>

Disk == [dirKind |-> dirKind, files |-> files, archive |-> archive]

\* ------------------------------------------------------------- acquisition

\* is_extracted_model_dir(directory): every expected file exists under it.
is_extracted_model_dir(kind, present) ==
  \A filename \in excepted_files : kind = "dir" /\ filename \in present

\* is_valid_url, lines 292-293.
is_valid_url(u) == TRUE

\* A URL as the list of its parts between the '/' characters.
DATA_URL == <<"http:", "", "download.tensorflow.org", "models", "image",
              "imagenet", "inception-2015-12-05.tgz">>

\* URLs download_model may be called with: the one of the program, one
\* without a scheme and one without a host.  All end in the same file name
\* (url.split('/')[-1], line 267).
Urls == {DATA_URL,
         <<"inception-2015-12-05.tgz">>,
         <<"http:", "", "", "inception-2015-12-05.tgz">>}

HasScheme(u) == Len(u) >= 1 /\ u[1] = "http:"

HasHost(u) == Len(u) >= 3 /\ u[2] = "" /\ u[3] # ""

WellFormed(u) == HasScheme(u) /\ HasHost(u)

Raise(e) == pc' = "aborted" /\ err' = e

\* A slip: a failed download reported but not raised, the caller goes on.
download_model_swallow(next) ==
  /\ downloads' = downloads + 1
  /\ pc' = next
  /\ IF ~is_valid_url(url) \/ dirKind # "dir"
     THEN err' = "DownloadError" /\ archive' = archive
     ELSE IF ~HasScheme(url)
     THEN err' = "ValueError" /\ archive' = archive
     ELSE IF ~HasHost(url)
     THEN err' = "DownloadError" /\ archive' = archive
     ELSE \/ \E c \in ArchiveContents :
               /\ archive' = MkArchive(c, downloads + 1)
               /\ err' = err
          \/ /\ archive' = archive
             /\ err' = "DownloadError"
          \/ \E w \in SUBSET Names :
               /\ archive' = [kind |-> "eof", writes |-> w, gen |-> downloads + 1]
               /\ err' = "DownloadError"

\* download_model(url, dest_directory), lines 256-289.  urlretrieve raises
\* ValueError ("unknown url type") for a URL without a scheme, which line
\* 285 does not catch, and URLError for one without a host.  Otherwise the
\* transfer either stores a fresh copy of whatever the network delivers and
\* the path is returned, or it fails (URLError, including a transfer cut
\* short, which may leave a truncated file behind) and DownloadError is
\* raised.
download_model(next) ==
  /\ downloads' = downloads + 1
  /\ IF ~is_valid_url(url) \/ dirKind # "dir"
     THEN Raise("DownloadError") /\ archive' = archive
     ELSE IF ~HasScheme(url)
     THEN Raise("ValueError") /\ archive' = archive
     ELSE IF ~HasHost(url)
     THEN Raise("DownloadError") /\ archive' = archive
     ELSE \/ \E c \in ArchiveContents :
               /\ archive' = MkArchive(c, downloads + 1)
               /\ pc' = next
               /\ err' = err
          \/ /\ archive' = archive
             /\ Raise("DownloadError")
          \/ \E w \in SUBSET Names :
               /\ archive' = [kind |-> "eof", writes |-> w, gen |-> downloads + 1]
               /\ Raise("DownloadError")

\* A slip: lines 318-319 left out, a path that is not a directory accepted.
mde_enter_if_no_dir_check(extracted) ==
  /\ pc = "main"
  /\ IF extracted
     THEN /\ pc' = "select_image"
          /\ acqReturned' = TRUE
          /\ UNCHANGED <<dirKind, mkdirs, err>>
     ELSE IF dirKind = "absent"
     THEN /\ dirKind' = "dir"
          /\ mkdirs' = mkdirs + 1
          /\ pc' = "mde_first"
          /\ UNCHANGED <<acqReturned, err>>
     ELSE /\ pc' = "mde_first"
          /\ UNCHANGED <<dirKind, mkdirs, acqReturned, err>>
  /\ UNCHANGED <<files, archive, fs0, tarfile_extracted, cnt, downloads,
                 attempts>>
  /\ UNCHANGED <<flagVars, warmVars, serveVars>>

\* maybe_download_and_extract, lines 313-319, with the result of the check
\* of line 314.
mde_enter_if(extracted) ==
  /\ pc = "main"
  /\ IF extracted
     THEN /\ pc' = "select_image"
          /\ acqReturned' = TRUE
          /\ UNCHANGED <<dirKind, mkdirs, err>>
     ELSE IF dirKind = "absent"
     THEN /\ dirKind' = "dir"
          /\ mkdirs' = mkdirs + 1
          /\ pc' = "mde_first"
          /\ UNCHANGED <<acqReturned, err>>
     ELSE IF dirKind # "dir"
     THEN /\ Raise("RuntimeError")
          /\ UNCHANGED <<dirKind, mkdirs, acqReturned>>
     ELSE /\ pc' = "mde_first"
          /\ UNCHANGED <<dirKind, mkdirs, acqReturned, err>>
  /\ UNCHANGED <<files, archive, fs0, tarfile_extracted, cnt, downloads,
                 attempts>>
  /\ UNCHANGED <<flagVars, warmVars, serveVars>>

\* A slip: line 314-315 left out, the download path is always taken.
mde_enter_always_acquires == mde_enter_if(FALSE)

mde_enter == mde_enter_if(is_extracted_model_dir(dirKind, files))

\* A slip: the archive downloaded even when a file of that name exists.
mde_first_always_downloads ==
  /\ pc = "mde_first"
  /\ download_model("mde_loop")
  /\ tarfile_extracted' = FALSE
  /\ cnt' = 0
  /\ UNCHANGED <<dirKind, files, fs0, attempts, mkdirs, acqReturned>>
  /\ UNCHANGED <<flagVars, warmVars, serveVars>>

\* Lines 320-325: use the archive that is already there, or download it.
mde_first ==
  /\ pc = "mde_first"
  /\ IF archive # NoArchive
     THEN pc' = "mde_loop" /\ UNCHANGED <<archive, downloads, err>>
     ELSE download_model("mde_loop")
  /\ tarfile_extracted' = FALSE
  /\ cnt' = 0
  /\ UNCHANGED <<dirKind, files, fs0, attempts, mkdirs, acqReturned>>
  /\ UNCHANGED <<flagVars, warmVars, serveVars>>

\* A slip: the loop test off by one.
loop_test_off_by_one == ~tarfile_extracted /\ cnt <= MAX_RETRY

\* Line 326: while not tarfile_extracted and cnt < MAX_RETRY.
loop_test == ~tarfile_extracted /\ cnt < MAX_RETRY

\* A slip: extractall() without the destination writes elsewhere.
extractall_elsewhere(present, a) == present

\* Line 329: t.extractall(dest_directory) writes the members it reaches
\* into the model directory.
extractall(present, a) == present \cup a.writes

\* Lines 326-335: the loop test and one extraction attempt; on "ok" the flag
\* is set and the loop left.
mde_extract ==
  /\ pc = "mde_loop"
  /\ loop_test
  /\ files' = extractall(files, archive)
  /\ attempts' = Append(attempts, [gen |-> archive.gen, outcome |-> archive.kind])
  /\ IF archive.kind = "ok"
     THEN tarfile_extracted' = TRUE /\ pc' = "mde_after"
     ELSE tarfile_extracted' = tarfile_extracted /\ pc' = "mde_retry"
  /\ UNCHANGED <<dirKind, archive, fs0, err, cnt, downloads, mkdirs, acqReturned>>
  /\ UNCHANGED <<flagVars, warmVars, serveVars>>

\* A slip: the retry without the download of line 338.
mde_retry_same_copy ==
  /\ pc = "mde_retry"
  /\ cnt' = cnt + 1
  /\ pc' = "mde_loop"
  /\ UNCHANGED <<diskVars, fs0, err, tarfile_extracted, downloads, attempts,
                 mkdirs, acqReturned>>
  /\ UNCHANGED <<flagVars, warmVars, serveVars>>

\* Lines 336-338, after a failed attempt: count it and download again.
mde_retry ==
  /\ pc = "mde_retry"
  /\ cnt' = cnt + 1
  /\ download_model("mde_loop")
  /\ UNCHANGED <<dirKind, files, fs0, tarfile_extracted, attempts, mkdirs,
                 acqReturned>>
  /\ UNCHANGED <<flagVars, warmVars, serveVars>>

\* Line 326 when the loop test fails, and lines 339-340.
mde_after ==
  /\ \/ pc = "mde_after"
     \/ pc = "mde_loop" /\ ~loop_test
  /\ IF ~tarfile_extracted
     THEN Raise("RuntimeError") /\ acqReturned' = acqReturned
     ELSE pc' = "select_image" /\ acqReturned' = TRUE /\ err' = err
  /\ UNCHANGED <<diskVars, fs0, acqVars>>
  /\ UNCHANGED <<flagVars, warmVars, serveVars>>

\* ----------------------------------------------------------------- warm-up

Exists(image) ==
  CASE image = "operator" -> operatorImage
    [] image = "default"  -> dirKind = "dir" /\ PANDA_JPG \in files
    [] OTHER              -> FALSE

\* main, lines 346-349: fall back to the image inside the model directory.
select_image ==
  /\ pc = "select_image"
  /\ warm_up_image_file' =
       IF warm_up_image_file = "" \/ ~Exists(warm_up_image_file)
       THEN "default" ELSE warm_up_image_file
  /\ pc' = "warm_read"
  /\ UNCHANGED <<diskVars, fs0, err, acqVars, acqReturned, operatorImage,
                 num_top_predictions, image_scores, flag0, url, warmVars,
                 serveVars>>

\* A slip: the read of a missing warm-up image taken to succeed.
warm_read_unchecked ==
  /\ pc = "warm_read"
  /\ pc' = "create_graph"
  /\ err' = err
  /\ UNCHANGED <<diskVars, fs0, acqVars, acqReturned, flagVars, warmVars,
                 serveVars>>

\* warm_up_model, lines 189-191: tf.logging.fatal logs and returns, the read
\* of a missing file raises.
warm_read ==
  /\ pc = "warm_read"
  /\ IF Exists(warm_up_image_file)
     THEN pc' = "create_graph" /\ err' = err
     ELSE Raise("NotFoundError")
  /\ UNCHANGED <<diskVars, fs0, acqVars, acqReturned, flagVars, warmVars,
                 serveVars>>

\* create_graph, lines 175-182, and line 197.
create_graph ==
  /\ pc = "create_graph"
  /\ IF dirKind = "dir" /\ GRAPH_PB \in files
     THEN /\ graphLoads' = graphLoads + 1
          /\ pc' = "warm_loop"
          /\ err' = err
     ELSE /\ Raise("NotFoundError")
          /\ graphLoads' = graphLoads
  /\ UNCHANGED <<diskVars, fs0, acqVars, acqReturned, flagVars, warmRuns,
                 serverStarts, serveVars>>

\* A slip: one pass too few.
warm_loop_test_short == warmRuns < WARM_UP_RUNS - 1

\* Line 200: for i in range(10).
warm_loop_test == warmRuns < WARM_UP_RUNS

\* warm_up_model, lines 200-202: one pass of the loop.
warm_up_run ==
  /\ pc = "warm_loop"
  /\ warm_loop_test
  /\ warmRuns' = warmRuns + 1
  /\ UNCHANGED <<diskVars, fs0, pc, err, acqVars, acqReturned, flagVars,
                 graphLoads, serverStarts, serveVars>>

\* warm_up_model line 204 and main lines 352-355: the loop is over, the
\* server is created and serve_forever entered.
serve_forever ==
  /\ pc = "warm_loop"
  /\ ~warm_loop_test
  /\ serverStarts' = serverStarts + 1
  /\ pc' = "serving"
  /\ UNCHANGED <<diskVars, fs0, err, acqVars, acqReturned, flagVars,
                 graphLoads, warmRuns, serveVars>>

\* ------------------------------------------------------ top-K reduction

\* The probability vectors the engine may return: node id i has the score
\* v[i + 1].
Vectors == UNION {[1..n -> 0..MaxScore] : n \in 1..MaxLen}

\* np.squeeze of the engine's (1, n) result: every axis of length 1 goes, so
\* a single-class result becomes a 0-dimensional array.
squeeze(batch) ==
  [ndim |-> IF Len(batch[1]) = 1 THEN 0 ELSE 1, data |-> batch[1]]

\* predictions.argsort(): the node ids in ascending order of score.  The
\* default sort kind is not stable: any order of equal scores may come out.
argsort(v) ==
  {p \in [1..Len(v) -> 0..(Len(v) - 1)] :
     /\ \A i, j \in 1..Len(v) : i # j => p[i] # p[j]
     /\ \A i \in 1..(Len(v) - 1) : v[p[i] + 1] <= v[p[i + 1] + 1]}

\* a[-k:] by Python's slice rules: the start -k is counted from the end
\* when negative and clamped to the sequence; -0 is 0.
SliceFrom(a, start) ==
  LET n == Len(a)
      s == IF start < 0
           THEN (IF start + n < 0 THEN 0 ELSE start + n)
           ELSE (IF start > n THEN n ELSE start)
  IN  [i \in 1..(n - s) |-> a[s + i]]

\* a[::-1]
Reversed(a) == [i \in 1..Len(a) |-> a[Len(a) + 1 - i]]

\* A slip: the [::-1] left out.
top_k_not_reversed(sorted, k) == SliceFrom(sorted, -k)

\* top_k = predictions.argsort()[-FLAGS.num_top_predictions:][::-1], line 242.
top_k(sorted, k) == Reversed(SliceFrom(sorted, -k))

\* NodeLookup.id_to_string, lines 169-172.
id_to_string(node_id) ==
  IF node_id \in 0..(NumLabelled - 1) THEN <<"label", node_id>> ELSE <<>>

\* Lines 243-248: one line per node id of top_k, then the timing line.
format_result(v, ids) ==
  [i \in 1..Len(ids) |->
     [kind |-> "prediction", node_id |-> ids[i],
      human_string |-> id_to_string(ids[i]), score |-> v[ids[i] + 1]]]
  \o <<[kind |-> "time"]>>

\* ------------------------------------------------------------------ serving

RequestKinds == {"noquery", "missing", "present"}

NoPredictions == [ndim |-> 1, data |-> <<>>]

SetLog(field, value) == log' = [log EXCEPT ![Len(log)][field] = value]

\* socketserver: an exception leaving do_GET is reported, the connection is
\* closed and the server waits for the next request.
handle_error ==
  /\ pc' = "serving"
  /\ req' = "none"
  /\ predictions' = NoPredictions
  /\ prediction_result' = <<>>
  /\ SetLog("done", TRUE)

\* A slip: a server that takes the next request while a handler is running.
accept_request_threading ==
  /\ pc \in {"serving", "do_GET", "inference_read", "sess_run", "node_lookup",
             "top_k", "send_response"}
  /\ Len(log) < MaxRequests
  /\ \E kind \in RequestKinds :
       /\ req' = kind
       /\ log' = Append(log, [kind |-> kind, ran |-> FALSE, looked_up |-> FALSE,
                              status |-> 0, done |-> FALSE])
  /\ pc' = "do_GET"
  /\ events' = <<>>
  /\ UNCHANGED <<diskVars, fs0, err, acqVars, acqReturned, flagVars, warmVars,
                 predictions, prediction_result, lookupBuilds>>

\* serve_forever (line 355) accepts the next request and calls do_GET;
\* HTTPServer handles one request at a time.
accept_request ==
  /\ pc = "serving"
  /\ Len(log) < MaxRequests
  /\ \E kind \in RequestKinds :
       /\ req' = kind
       /\ log' = Append(log, [kind |-> kind, ran |-> FALSE, looked_up |-> FALSE,
                              status |-> 0, done |-> FALSE])
  /\ pc' = "do_GET"
  /\ events' = <<>>
  /\ UNCHANGED <<diskVars, fs0, err, acqVars, acqReturned, flagVars, warmVars,
                 predictions, prediction_result, lookupBuilds>>

\* do_GET, lines 86-90: the value of the first query item.
do_GET ==
  /\ pc = "do_GET"
  /\ IF req = "noquery"
     THEN handle_error
     ELSE /\ pc' = "inference_read"
          /\ UNCHANGED <<req, predictions, prediction_result, log>>
  /\ UNCHANGED <<diskVars, fs0, err, acqVars, acqReturned, flagVars, warmVars,
                 events, lookupBuilds>>

\* A slip: the read of a missing file taken to succeed.
inference_read_unchecked ==
  /\ pc = "inference_read"
  /\ pc' = "sess_run"
  /\ events' = Append(events, "read")
  /\ UNCHANGED <<req, predictions, prediction_result, log>>
  /\ UNCHANGED <<diskVars, fs0, err, acqVars, acqReturned, flagVars, warmVars,
                 lookupBuilds>>

\* run_inference_on_image, lines 216-218.
inference_read ==
  /\ pc = "inference_read"
  /\ IF req = "missing"
     THEN handle_error /\ events' = events
     ELSE /\ pc' = "sess_run"
          /\ events' = Append(events, "read")
          /\ UNCHANGED <<req, predictions, prediction_result, log>>
  /\ UNCHANGED <<diskVars, fs0, err, acqVars, acqReturned, flagVars, warmVars,
                 lookupBuilds>>

\* run_inference_on_image, lines 231-235: the start time is taken, then the
\* engine runs.  The engine is deterministic: the same image bytes give the
\* same (1, n) result.
sess_run ==
  /\ pc = "sess_run"
  /\ predictions' = squeeze(<<image_scores>>)
  /\ SetLog("ran", TRUE)
  /\ events' = events \o <<"start_time", "run">>
  /\ pc' = "node_lookup"
  /\ UNCHANGED <<diskVars, fs0, err, acqVars, acqReturned, flagVars, warmVars,
                 req, prediction_result, lookupBuilds>>

\* A slip: missing label maps taken to give an empty lookup.
node_lookup_unchecked ==
  /\ pc = "node_lookup"
  /\ SetLog("looked_up", TRUE)
  /\ lookupBuilds' = lookupBuilds + 1
  /\ events' = Append(events, "lookup")
  /\ pc' = "top_k"
  /\ UNCHANGED <<req, predictions, prediction_result>>
  /\ UNCHANGED <<diskVars, fs0, err, acqVars, acqReturned, flagVars, warmVars>>

\* A slip: the lookup built for the first request kept for the later ones.
node_lookup_cached ==
  /\ pc = "node_lookup"
  /\ IF lookupBuilds > 0
     THEN /\ SetLog("looked_up", TRUE)
          /\ lookupBuilds' = lookupBuilds
          /\ events' = events
          /\ pc' = "top_k"
          /\ UNCHANGED <<req, predictions, prediction_result>>
     ELSE IF dirKind = "dir" /\ UID_MAP \in files /\ LABEL_MAP \in files
     THEN /\ SetLog("looked_up", TRUE)
          /\ lookupBuilds' = lookupBuilds + 1
          /\ events' = Append(events, "lookup")
          /\ pc' = "top_k"
          /\ UNCHANGED <<req, predictions, prediction_result>>
     ELSE /\ handle_error
          /\ UNCHANGED <<lookupBuilds, events>>
  /\ UNCHANGED <<diskVars, fs0, err, acqVars, acqReturned, flagVars, warmVars>>

\* run_inference_on_image line 238: NodeLookup(), lines 113-167, built anew
\* in every call.
node_lookup ==
  /\ pc = "node_lookup"
  /\ IF dirKind = "dir" /\ UID_MAP \in files /\ LABEL_MAP \in files
     THEN /\ SetLog("looked_up", TRUE)
          /\ lookupBuilds' = lookupBuilds + 1
          /\ events' = Append(events, "lookup")
          /\ pc' = "top_k"
          /\ UNCHANGED <<req, predictions, prediction_result>>
     ELSE /\ handle_error
          /\ UNCHANGED <<lookupBuilds, events>>
  /\ UNCHANGED <<diskVars, fs0, err, acqVars, acqReturned, flagVars, warmVars>>

\* run_inference_on_image, lines 241-249.  Indexing a 0-dimensional array
\* raises IndexError.  The end time is taken at line 248, after the lines of
\* the result are formatted.
reduce_top_k ==
  /\ pc = "top_k"
  /\ IF predictions.ndim = 0
     THEN handle_error /\ events' = events
     ELSE /\ \E sorted \in argsort(predictions.data) :
               prediction_result' =
                 format_result(predictions.data, top_k(sorted, num_top_predictions))
          /\ events' = events \o <<"format", "end_time">>
          /\ pc' = "send_response"
          /\ UNCHANGED <<req, predictions, log>>
  /\ UNCHANGED <<diskVars, fs0, err, acqVars, acqReturned, flagVars, warmVars,
                 lookupBuilds>>

\* do_GET, lines 93-107.
send_response ==
  /\ pc = "send_response"
  /\ log' = [log EXCEPT ![Len(log)].status = 200, ![Len(log)].done = TRUE]
  /\ pc' = "serving"
  /\ req' = "none"
  /\ predictions' = NoPredictions
  /\ prediction_result' = <<>>
  /\ UNCHANGED <<diskVars, fs0, err, acqVars, acqReturned, flagVars, warmVars,
                 events, lookupBuilds>>

\* ------------------------------------------------------------ specification

Disks ==
  {[dirKind |-> "absent", files |-> {}, archive |-> NoArchive],
   [dirKind |-> "file", files |-> {}, archive |-> NoArchive]}
  \cup {[dirKind |-> "dir", files |-> f, archive |-> a] :
          f \in SUBSET Names,
          a \in {NoArchive} \cup {MkArchive(c, 0) : c \in ArchiveContents}}

WarmFlags == {<<"", FALSE>>, <<"operator", FALSE>>, <<"operator", TRUE>>}

\* The process at position start, on one of the given disks with the given
\* flags.
InitVars(start, disks, warmFlags, ks, scores, urls) ==
  /\ \E d \in disks :
       /\ dirKind = d.dirKind
       /\ files = d.files
       /\ archive = d.archive
       /\ fs0 = d
  /\ \E w \in warmFlags :
       /\ warm_up_image_file = w[1]
       /\ flag0 = w[1]
       /\ operatorImage = w[2]
  /\ num_top_predictions \in ks
  /\ image_scores \in scores
  /\ url \in urls
  /\ pc = start
  /\ err = ""
  /\ tarfile_extracted = FALSE
  /\ cnt = 0
  /\ downloads = 0
  /\ attempts = <<>>
  /\ mkdirs = 0
  /\ acqReturned = FALSE
  /\ graphLoads = 0
  /\ warmRuns = 0
  /\ serverStarts = 0
  /\ req = "none"
  /\ predictions = NoPredictions
  /\ prediction_result = <<>>
  /\ log = <<>>
  /\ events = <<>>
  /\ lookupBuilds = 0

\* The process at the start of main: download_model is called with DATA_URL
\* (lines 322 and 338).
InitOf(disks, warmFlags, ks, scores) ==
  InitVars("main", disks, warmFlags, ks, scores, {DATA_URL})

Acquire ==
  \/ mde_enter
  \/ mde_first
  \/ mde_extract
  \/ mde_retry
  \/ mde_after

Startup ==
  \/ select_image
  \/ warm_read
  \/ create_graph
  \/ warm_up_run
  \/ serve_forever

Serve ==
  \/ accept_request
  \/ do_GET
  \/ inference_read
  \/ sess_run
  \/ node_lookup
  \/ reduce_top_k
  \/ send_response

\* The whole program.
Init == InitOf(Disks, WarmFlags, {DEFAULT_TOP}, {<<1, 2, 0>>})

Next == Acquire \/ Startup \/ Serve

Spec == Init /\ [][Next]_vars

\* One run of maybe_download_and_extract, on every disk.
InitAcquire == InitOf(Disks, {<<"", FALSE>>}, {DEFAULT_TOP}, {<<1, 2, 0>>})

NextAcquire == Acquire

SpecAcquire == InitAcquire /\ [][NextAcquire]_vars

\* The program started on a complete model directory, for every
\* --num_top_predictions and every result of the engine.
ValidDisk == [dirKind |-> "dir", files |-> Names, archive |-> NoArchive]

InitTopK == InitOf({ValidDisk}, {<<"", FALSE>>}, 0..MaxK, Vectors)

NextTopK == mde_enter \/ Startup \/ Serve

SpecTopK == InitTopK /\ [][NextTopK]_vars

\* One call download_model(url, dst_dir), lines 256-289, for every URL and
\* every state of the destination.
call_download_model ==
  /\ pc = "download_call"
  /\ download_model("download_returned")
  /\ UNCHANGED <<dirKind, files, fs0, tarfile_extracted, cnt, attempts, mkdirs,
                 acqReturned>>
  /\ UNCHANGED <<flagVars, warmVars, serveVars>>

InitDownload ==
  InitVars("download_call", Disks, {<<"", FALSE>>}, {DEFAULT_TOP},
           {<<1, 2, 0>>}, Urls)

NextDownload == call_download_model

SpecDownload == InitDownload /\ [][NextDownload]_vars

\* ------------------------------------------------------------------ claims

AcquirePcs == {"main", "mde_first", "mde_loop", "mde_retry", "mde_after"}

ServePcs == {"serving", "do_GET", "inference_read", "sess_run", "node_lookup",
             "top_k", "send_response"}

StartedValid == is_extracted_model_dir(fs0.dirKind, fs0.files)

Failed(i) == attempts[i].outcome # "ok"

\* C1: started on a model directory that holds the three required files,
\* maybe_download_and_extract returns normally, and no download, no
\* extraction attempt and no makedirs has happened and the disk is as it was.
C1_ValidDirUntouched ==
  (StartedValid /\ pc # "main") =>
     /\ acqReturned /\ err = "" /\ pc = "select_image"
     /\ downloads = 0 /\ attempts = <<>> /\ mkdirs = 0
     /\ Disk = fs0

C1_Witness ==
  /\ StartedValid /\ acqReturned
  /\ fs0.archive # NoArchive /\ fs0.archive.kind = "eof"

\* C2: a run makes at most 2 extraction attempts, and when both failed
\* (EOFError or TarError, in any combination) it never returns normally: it
\* is still inside the function or has ended with an error.
C2_TwoAttemptsThenError ==
  /\ Len(attempts) <= 2
  /\ (Len(attempts) = 2 /\ Failed(1) /\ Failed(2)) =>
        /\ ~acqReturned
        /\ pc \in {"mde_retry", "mde_loop", "aborted"}
        /\ pc = "aborted" => err \in {"RuntimeError", "DownloadError"}

C2_Witness ==
  /\ Len(attempts) = 2
  /\ attempts[1].outcome = "eof" /\ attempts[2].outcome = "tarerr"
  /\ pc = "aborted" /\ err = "RuntimeError"

\* C4: every extraction attempt after the first works on a copy that a
\* download of this run stored after the previous attempt; and from an empty
\* or absent directory, a run whose first attempt failed and that returned
\* normally made exactly two downloads and two attempts.
C4_FreshCopyPerRetry ==
  /\ \A i \in 2..Len(attempts) :
       /\ attempts[i].gen > attempts[i - 1].gen
       /\ attempts[i].gen = i - 1 + (IF fs0.archive = NoArchive THEN 1 ELSE 0)
  /\ (fs0.files = {} /\ fs0.archive = NoArchive /\ acqReturned
        /\ attempts # <<>> /\ Failed(1)) =>
       (downloads = 2 /\ Len(attempts) = 2)

C4_Witness ==
  /\ fs0.files = {} /\ fs0.archive = NoArchive /\ acqReturned
  /\ Len(attempts) = 2 /\ Failed(1) /\ ~Failed(2) /\ downloads = 2
  /\ is_extracted_model_dir(dirKind, files)

\* C3 as stated: whenever maybe_download_and_extract has returned normally
\* the model directory holds the three required files, whatever archive the
\* extraction succeeded on.
C3_ReturnedImpliesValid ==
  acqReturned => is_extracted_model_dir(dirKind, files)

\* C3 amended: when maybe_download_and_extract has returned normally, either
\* the directory held the three required files at entry (and still does), or
\* the last extraction attempt succeeded on the archive now on disk and all
\* members of that archive are in the directory, so that the directory holds
\* the three required files whenever that archive contains them.
C3_ValidWhenArchiveComplete ==
  acqReturned =>
    \/ StartedValid /\ is_extracted_model_dir(dirKind, files)
    \/ /\ tarfile_extracted /\ attempts # <<>>
       /\ attempts[Len(attempts)] = [gen |-> archive.gen, outcome |-> "ok"]
       /\ archive.kind = "ok"
       /\ archive.writes \subseteq files
       /\ excepted_files \subseteq archive.writes =>
            is_extracted_model_dir(dirKind, files)

C3_Witness ==
  /\ acqReturned /\ ~StartedValid /\ fs0.dirKind = "absent"
  /\ Len(attempts) = 1 /\ archive.writes = Names
  /\ is_extracted_model_dir(dirKind, files)

\* C10 as stated: when a run has ended with the error of line 340 after two
\* failed extraction attempts, the model directory does not hold the three
\* required files (the check of line 314 fails on it).
C10_FailedRunNotValid ==
  (pc = "aborted" /\ err = "RuntimeError"
     /\ Len(attempts) = 2 /\ Failed(1) /\ Failed(2)) =>
     ~is_extracted_model_dir(dirKind, files)

\* C5: the graph is loaded at most once and only after acquisition has
\* returned; warm-up runs happen only with the graph loaded; the server is
\* started at most once, after all 10 warm-up runs; every request is handled
\* with acquisition returned, the graph loaded once and the 10 runs done; and
\* acquisition is not re-entered once it has returned.
C5_PhasesOrdered ==
  /\ graphLoads <= 1 /\ serverStarts <= 1 /\ warmRuns <= 10
  /\ graphLoads >= 1 => acqReturned
  /\ warmRuns >= 1 => graphLoads = 1
  /\ serverStarts >= 1 => warmRuns = 10
  /\ (pc \in ServePcs \/ log # <<>>) =>
        acqReturned /\ graphLoads = 1 /\ warmRuns = 10 /\ serverStarts = 1
  /\ acqReturned => pc \notin AcquirePcs
  /\ pc \in AcquirePcs => graphLoads = 0 /\ warmRuns = 0 /\ serverStarts = 0

C5_Witness ==
  /\ Len(log) = 2 /\ log[1].status = 200 /\ log[2].ran
  /\ downloads = 2 /\ Len(attempts) = 2

PredictionLines == SubSeq(prediction_result, 1, Len(prediction_result) - 1)

Min(a, b) == IF a < b THEN a ELSE b

\* C6 as stated: for every vector of length n >= 1 and every K >= 0 the
\* result holds exactly min(K, n) prediction lines and then the timing line.
C6_MinKNLines ==
  pc = "send_response" =>
    /\ Len(PredictionLines) = Min(num_top_predictions, Len(image_scores))
    /\ prediction_result[Len(prediction_result)].kind = "time"

Descending(lines) ==
  \A i, j \in 1..Len(lines) : i < j => lines[i].score >= lines[j].score

Chosen(lines) == {lines[i].node_id : i \in 1..Len(lines)}

\* The lines are distinct classes with their scores, and no class left out
\* scores higher than a class listed.
HighestScoring(lines, v) ==
  /\ \A i, j \in 1..Len(lines) : i # j => lines[i].node_id # lines[j].node_id
  /\ \A i \in 1..Len(lines) :
       /\ lines[i].node_id \in 0..(Len(v) - 1)
       /\ lines[i].score = v[lines[i].node_id + 1]
       /\ \A id \in (0..(Len(v) - 1)) \ Chosen(lines) : v[id + 1] <= lines[i].score

LowerIndexFirstOnTies(lines) ==
  \A i, j \in 1..Len(lines) :
    (i < j /\ lines[i].score = lines[j].score) => lines[i].node_id < lines[j].node_id

\* The example of the claim, with the scores 0.1, 0.7, 0.2 as levels 0, 2, 1.
ExampleOrder ==
  (image_scores = <<0, 2, 1>> /\ num_top_predictions = 2) =>
     (Len(PredictionLines) = 2 /\ PredictionLines[1].node_id = 1
        /\ PredictionLines[2].node_id = 2)

\* C7 as stated: the prediction lines are the highest-scoring classes in
\* descending order of score, classes of equal score with the lower index
\* first.  Stated for K >= 1, which is enough to refute it.
C7_DescendingLowerIndexFirst ==
  (pc = "send_response" /\ num_top_predictions >= 1) =>
    /\ Descending(PredictionLines)
    /\ HighestScoring(PredictionLines, image_scores)
    /\ LowerIndexFirstOnTies(PredictionLines)
    /\ ExampleOrder

\* C7 amended: the prediction lines are the highest-scoring classes in
\* descending order of score (for the scores 0.1, 0.7, 0.2 and K = 2: class
\* 1, then class 2); nothing is promised about the order of classes of equal
\* score.
C7_DescendingHighest ==
  pc = "send_response" =>
    /\ Descending(PredictionLines)
    /\ HighestScoring(PredictionLines, image_scores)
    /\ ExampleOrder

C7_Witness ==
  /\ pc = "send_response"
  /\ image_scores = <<0, 2, 1>> /\ num_top_predictions = 2
  /\ Len(PredictionLines) = 2 /\ PredictionLines[1].node_id = 1

\* C8 as stated: a request naming a missing file terminates the process: no
\* inference and no 200 response for it, and no request is accepted after it.
C8_MissingFileEndsProcess ==
  \A i \in 1..Len(log) :
    log[i].kind = "missing" =>
      /\ ~log[i].ran /\ log[i].status # 200
      /\ i = Len(log)
      /\ pc \in {"do_GET", "inference_read", "aborted"}

\* C8 amended: for a request naming a missing file no inference is run and
\* no 200 response is sent; the process is not terminated by it (once the
\* server has started, the process never ends with an error).
C8_MissingFileNotServed ==
  /\ \A i \in 1..Len(log) :
       log[i].kind = "missing" => (~log[i].ran /\ log[i].status # 200)
  /\ serverStarts >= 1 => (pc # "aborted" /\ err = "")

C8_Witness ==
  /\ Len(log) = 2 /\ log[1].kind = "missing" /\ log[1].status = 0
  /\ log[2].kind = "present" /\ log[2].status = 200
  /\ pc = "serving"

LabelMapsPresent == dirKind = "dir" /\ {LABEL_MAP, UID_MAP} \subseteq files

\* C9 as stated: once acquisition has returned with a label-map file
\* missing, the process aborts before serving: the server never waits for or
\* handles a request with a label-map file absent.
C9_NoServingWithoutLabelMaps ==
  (acqReturned /\ ~LabelMapsPresent) => (serverStarts = 0 /\ pc \notin ServePcs)

\* C9 amended: a missing label-map file does not stop start-up, but no
\* request gets a response while one is absent: the label lookup is built
\* only with both files present and a 200 response is sent only after it.
C9_NoResponseWithoutLabelMaps ==
  /\ \A i \in 1..Len(log) :
       /\ log[i].looked_up => LabelMapsPresent
       /\ log[i].status = 200 => log[i].looked_up
  /\ pc \in {"top_k", "send_response"} => LabelMapsPresent

C9_Witness ==
  /\ ~LabelMapsPresent /\ pc = "serving" /\ serverStarts = 1
  /\ Len(log) = 1 /\ log[1].ran /\ ~log[1].looked_up /\ log[1].status = 0

\* ---------------------------------------------------------------- C11

Occurs(e) == \E i \in DOMAIN events : events[i] = e

Pos(e) == CHOOSE i \in DOMAIN events : events[i] = e

\* C11: for a request about to be answered, the start time was taken after
\* the image was read and immediately before the engine run, and the end
\* time immediately after the run, before the label maps were loaded and
\* before any prediction line was formatted.
C11_ElapsedCoversRunOnly ==
  pc = "send_response" =>
    /\ \A e \in {"read", "start_time", "run", "end_time"} : Occurs(e)
    /\ Pos("read") < Pos("start_time")
    /\ Pos("run") = Pos("start_time") + 1
    /\ Pos("end_time") = Pos("run") + 1
    /\ Occurs("lookup") => Pos("end_time") < Pos("lookup")
    /\ Occurs("format") => Pos("end_time") < Pos("format")

\* ---------------------------------------------------------------- C12

\* C12: a call of download_model that has ended raised DownloadError if the
\* URL is malformed, if the destination is not an existing directory, or if
\* the archive file does not exist at the destination afterwards; it has
\* returned the path only when that file exists.
C12_DownloadErrorCases ==
  pc # "download_call" =>
    /\ ~WellFormed(url) => pc = "aborted" /\ err = "DownloadError"
    /\ fs0.dirKind # "dir" => pc = "aborted" /\ err = "DownloadError"
    /\ archive = NoArchive => pc = "aborted" /\ err = "DownloadError"
    /\ pc = "download_returned" => archive # NoArchive

\* ---------------------------------------------------------------- C13

\* The archive stored by the g-th download was handed to an extraction
\* attempt.
Extracted(g) == \E i \in DOMAIN attempts : attempts[i].gen = g

\* C13: a run performs at most MAX_RETRY downloads, and when acquisition
\* has ended, by a normal return or by the error of line 340, every
\* download of the run was followed by an extraction attempt on the archive
\* it stored.
C13_DownloadExtractPairs ==
  /\ downloads <= MAX_RETRY
  /\ (pc = "select_image" \/ (pc = "aborted" /\ err = "RuntimeError")) =>
       \A g \in 1..downloads : Extracted(g)

\* ---------------------------------------------------------------- C14

\* The run started on a directory that is not valid and holds a file with
\* the name of the archive.
ArchiveAtEntry ==
  /\ fs0.dirKind = "dir"
  /\ ~is_extracted_model_dir(fs0.dirKind, fs0.files)
  /\ fs0.archive # NoArchive

\* C14: when the model directory is not valid but holds a file with the
\* archive's name, the first extraction attempt is made on that file with
\* no download before it, and a download happens in the run only after that
\* attempt has failed.
C14_ExistingArchiveFirst ==
  ArchiveAtEntry =>
    /\ attempts # <<>> => attempts[1].gen = 0
    /\ downloads > 0 => attempts # <<>> /\ attempts[1].outcome # "ok"
    /\ pc \in {"select_image", "aborted"} => attempts # <<>>

C14_Witness ==
  /\ ArchiveAtEntry /\ fs0.archive.kind = "eof"
  /\ Len(attempts) = 2 /\ attempts[1].gen = 0 /\ attempts[2].gen = 1
  /\ downloads = 1 /\ pc = "select_image"

\* ---------------------------------------------------------------- C15

\* C15: when the model directory path is a file, the run ends with
\* RuntimeError before any download or extraction attempt and leaves the
\* disk as it was; when the path does not exist, the directory is created
\* before the first download.
C15_NotADirectoryFails ==
  /\ fs0.dirKind = "file" =>
       /\ Disk = fs0 /\ downloads = 0 /\ attempts = <<>> /\ mkdirs = 0
       /\ pc \in {"main", "aborted"}
       /\ pc = "aborted" => err = "RuntimeError"
  /\ fs0.dirKind = "absent" =>
       /\ pc # "main" => mkdirs = 1 /\ dirKind = "dir"
       /\ downloads > 0 => mkdirs = 1 /\ dirKind = "dir"

C15_Witness ==
  /\ fs0.dirKind = "file" /\ pc = "aborted" /\ err = "RuntimeError"
  /\ downloads = 0 /\ Disk = fs0

\* ---------------------------------------------------------------- C16

\* C16: once a download has raised DownloadError the process is over: it
\* has not returned from acquisition, loaded no graph, made no warm-up run,
\* started no server and handled no request, and no further download or
\* extraction attempt is made.
C16_DownloadErrorPropagates ==
  /\ [](err = "DownloadError" =>
          /\ pc = "aborted" /\ ~acqReturned
          /\ graphLoads = 0 /\ warmRuns = 0 /\ serverStarts = 0 /\ log = <<>>)
  /\ [][err = "DownloadError" => UNCHANGED <<downloads, attempts>>]_vars

C16_Witness ==
  /\ err = "DownloadError" /\ pc = "aborted"
  /\ downloads = 2 /\ Len(attempts) = 1 /\ serverStarts = 0

\* ---------------------------------------------------------------- C17

HandlerPcs == {"do_GET", "inference_read", "sess_run", "node_lookup", "top_k",
               "send_response"}

\* The requests whose handler has started and not finished.
InProgress == {i \in DOMAIN log : ~log[i].done}

Runs == {i \in DOMAIN events : events[i] = "run"}

\* C17: requests are handled one at a time: every request accepted before
\* the latest one has finished, at most one handler is in progress, and a
\* 200 response is sent only after the one engine run of its request.
C17_OneAtATime ==
  /\ \A i \in DOMAIN log : i < Len(log) => log[i].done
  /\ Cardinality(InProgress) <= 1
  /\ pc \in HandlerPcs <=> InProgress # {}
  /\ \A i \in DOMAIN log : log[i].status = 200 => log[i].ran /\ log[i].done
  /\ pc = "send_response" => Cardinality(Runs) = 1

C17_Witness ==
  /\ Len(log) = 2 /\ log[1].status = 200 /\ log[1].done
  /\ pc = "send_response" /\ log[2].ran /\ ~log[2].done

\* ---------------------------------------------------------------- C18

\* main has passed lines 346-349.
ImageSelected == acqReturned /\ pc # "select_image"

\* C18: the warm-up image is the operator's path when that path is not
\* empty and the file exists, and otherwise the default image in the model
\* directory; while the selected image does not exist, start-up ends with
\* an error before any graph load, warm-up run or request.
C18_WarmUpImage ==
  ImageSelected =>
    /\ warm_up_image_file =
         IF flag0 # "" /\ operatorImage THEN flag0 ELSE "default"
    /\ ~Exists(warm_up_image_file) =>
         /\ pc \in {"warm_read", "aborted"}
         /\ pc = "aborted" => err = "NotFoundError"
         /\ graphLoads = 0 /\ warmRuns = 0 /\ serverStarts = 0 /\ log = <<>>

C18_Witness ==
  /\ ImageSelected /\ flag0 = "operator" /\ ~operatorImage
  /\ warm_up_image_file = "default" /\ ~Exists("default")
  /\ pc = "aborted" /\ err = "NotFoundError" /\ graphLoads = 0

\* ---------------------------------------------------------------- C19

LookedUp == {i \in DOMAIN log : log[i].looked_up}

\* C19: the label lookup is built exactly once in the life of the process:
\* never more than once, and once as soon as a request has been served.
C19_BuiltOnce ==
  /\ lookupBuilds <= 1
  /\ (\E i \in DOMAIN log : log[i].status = 200) => lookupBuilds = 1

\* C19, amended: start-up builds no label lookup; one is built, and the two
\* label-map files are parsed, in every request that reaches line 238, so
\* the number of lookups built is the number of such requests and each
\* response comes from the lookup built for its own request.
C19_BuiltPerRequest ==
  /\ lookupBuilds = Cardinality(LookedUp)
  /\ log = <<>> => lookupBuilds = 0
  /\ pc = "send_response" => Occurs("lookup")
  /\ \A i \in DOMAIN log : log[i].status = 200 => i \in LookedUp

C19_Witness ==
  /\ Len(log) = 2 /\ log[1].status = 200 /\ log[2].status = 200
  /\ lookupBuilds = 2

====
